---- MODULE Spec2Model ----
(***************************************************************************)
(* A model of bangmetric.dprime (src/bangmetric/dprime.py): one call of    *)
(* dprime(A, B, mode, max_value, min_value), from the mode dispatch to the *)
(* clipped return value or the raised exception.                           *)
(*                                                                         *)
(* Numbers.  A float is a record [k, n, d]: k = "fin" is the rational n/d  *)
(* in lowest terms with d > 0, k = "nan", "pinf", "ninf" are the IEEE      *)
(* specials.  Arithmetic is exact (no rounding).  The d' value itself is   *)
(* a rational divided by the square root of a rational, so a d' value, and *)
(* the clip bounds it is compared with, are held as their SIGNED SQUARE    *)
(* ssq(x) = sgn(x) * x^2, again a record of the same form.  ssq is a       *)
(* bijection of the reals that keeps the order and commutes with negation, *)
(* so comparing, clipping and negating d' values is done on signed         *)
(* squares.                                                                *)
(*                                                                         *)
(* Arrays.  An array is a record [ndim, data]: ndim = 1 is the shape       *)
(* (Len(data),), ndim = 2 is the one-row matrix of shape (1, Len(data)).   *)
(* A scalar d' is held as a one-element sequence.                          *)
(***************************************************************************)
EXTENDS Integers, Sequences, FiniteSets, TLC

\* ---------------------------------------------------------------- bounds
\* sample mode: len(A) + len(B) is at most MaxSamples
MaxSamples == 5
\* binary mode: len(A) = len(B) is at most MaxLabels
MaxLabels == 4
\* rate mode: len(A) and len(B) are each at most MaxRates
MaxRates == 2
\* arrays of the shape cases (unequal lengths, two-dimensional arrays)
MaxShape == 2

\* ---------------------------------------------------------------- floats
Fin(n, d) == [k |-> "fin", n |-> n, d |-> d]
Int2F(i) == Fin(i, 1)
NaN == [k |-> "nan", n |-> 0, d |-> 1]
PInf == [k |-> "pinf", n |-> 0, d |-> 1]
NInf == [k |-> "ninf", n |-> 0, d |-> 1]
Zero == Int2F(0)

Abs(i) == IF i < 0 THEN -i ELSE i
Min2(i, j) == IF i <= j THEN i ELSE j

RECURSIVE GCD(_, _)
GCD(a, b) == IF b = 0 THEN a ELSE GCD(b, a % b)

\* the rational n/d (d # 0) in lowest terms with a positive denominator
Rat(n, d) ==
    LET g == GCD(Abs(n), Abs(d))
        s == IF d < 0 THEN -1 ELSE 1
    IN  Fin((s * n) \div g, (s * d) \div g)

\* a faulty variant of isfinite: only NaN is not finite (the test x == x)
isfinite_not_nan(x) == x.k # "nan"
\* numpy.isfinite of one element
isfinite(x) == x.k = "fin"
\* -1, 0, 1 for a finite or infinite x
Sgn(x) ==
    CASE x.k = "pinf" -> 1
      [] x.k = "ninf" -> -1
      [] OTHER -> IF x.n > 0 THEN 1 ELSE IF x.n < 0 THEN -1 ELSE 0
Signed(s) == IF s > 0 THEN PInf ELSE NInf

FNeg(x) ==
    CASE x.k = "fin" -> Fin(-x.n, x.d)
      [] x.k = "pinf" -> NInf
      [] x.k = "ninf" -> PInf
      [] OTHER -> NaN

\* IEEE addition: inf + (-inf) is NaN
FAdd(x, y) ==
    CASE x.k = "nan" \/ y.k = "nan" -> NaN
      [] x.k = "fin" /\ y.k = "fin" -> Rat(x.n * y.d + y.n * x.d, x.d * y.d)
      [] x.k = "fin" -> y
      [] y.k = "fin" -> x
      [] OTHER -> IF x.k = y.k THEN x ELSE NaN

FSub(x, y) == FAdd(x, FNeg(y))

\* IEEE multiplication: 0 * inf is NaN
FMul(x, y) ==
    CASE x.k = "nan" \/ y.k = "nan" -> NaN
      [] x.k = "fin" /\ y.k = "fin" -> Rat(x.n * y.n, x.d * y.d)
      [] OTHER -> IF Sgn(x) * Sgn(y) = 0 THEN NaN ELSE Signed(Sgn(x) * Sgn(y))

\* IEEE division as numpy does it (a warning, no exception): x/0 is a signed
\* infinity, 0/0 and inf/inf are NaN
FDiv(x, y) ==
    CASE x.k = "nan" \/ y.k = "nan" -> NaN
      [] x.k = "fin" /\ y.k = "fin" ->
            IF y.n # 0 THEN Rat(x.n * y.d, x.d * y.n)
            ELSE IF x.n = 0 THEN NaN ELSE Signed(x.n)
      [] x.k = "fin" -> Zero
      [] y.k = "fin" -> Signed(Sgn(x) * (IF y.n < 0 THEN -1 ELSE 1))
      [] OTHER -> NaN

\* x <= y and x < y on floats; every comparison with NaN is false
FLe(x, y) ==
    CASE x.k = "nan" \/ y.k = "nan" -> FALSE
      [] x.k = "ninf" \/ y.k = "pinf" -> TRUE
      [] x.k = "pinf" \/ y.k = "ninf" -> FALSE
      [] OTHER -> x.n * y.d <= y.n * x.d
FLt(x, y) == FLe(x, y) /\ x # y

\* the signed square of a float
Ssq(x) == IF x.k = "fin" THEN Rat(Sgn(x) * x.n * x.n, x.d * x.d) ELSE x

\* ---------------------------------------------------------------- arrays
Arr(nd, data) == [ndim |-> nd, data |-> data]
\* the value of a name that is not bound yet
NoArr == Arr(0, <<>>)
\* len(a): the length of the first axis
len(a) == IF a.ndim = 1 THEN Len(a.data) ELSE 1
\* a.size: the number of elements
size(a) == Len(a.data)
\* a.shape
shape(a) == IF a.ndim = 1 THEN <<Len(a.data)>> ELSE <<1, Len(a.data)>>
\* numpy.isfinite(a).all()
isfinite_all(a) == \A i \in 1..Len(a.data) : isfinite(a.data[i])

RECURSIVE sum(_)
sum(s) == IF s = <<>> THEN Zero ELSE FAdd(Head(s), sum(Tail(s)))

\* a.mean(): the sum over the element count (NaN for an empty array)
mean(a) == FDiv(sum(a.data), Int2F(size(a)))

\* a faulty variant of var: the population variance, ddof ignored
var_population(a, ddof) ==
    LET m == mean(a)
        dev == [i \in 1..size(a) |-> FMul(FSub(a.data[i], m), FSub(a.data[i], m))]
    IN  FDiv(sum(dev), Int2F(size(a)))

\* a.var(ddof): the sum of the squared deviations from the mean over
\* max(size - ddof, 0)
var(a, ddof) ==
    LET m == mean(a)
        dev == [i \in 1..size(a) |-> FMul(FSub(a.data[i], m), FSub(a.data[i], m))]
        rcount == IF size(a) - ddof > 0 THEN size(a) - ddof ELSE 0
    IN  FDiv(sum(dev), Int2F(rcount))

\* numpy.sqrt(x), as a signed square: the signed square of sqrt(x) is x
sqrt(x) ==
    CASE x.k = "nan" \/ x.k = "ninf" -> NaN
      [] x.k = "pinf" -> PInf
      [] OTHER -> IF x.n < 0 THEN NaN ELSE x

\* scipy.stats.norm.ppf(q), the standard normal quantile function: -inf at 0,
\* +inf at 1, NaN at NaN and outside [0, 1]; inside, the model draws only the
\* quartiles, tabulated to three decimals
norm_ppf(q) ==
    CASE q.k # "fin" -> NaN
      [] q = Zero -> NInf
      [] q = Int2F(1) -> PInf
      [] q = Fin(1, 4) -> Rat(-674, 1000)
      [] q = Fin(1, 2) -> Zero
      [] q = Fin(3, 4) -> Rat(674, 1000)
      [] OTHER -> NaN

\* numpy.maximum and numpy.minimum of two elements: NaN if either is NaN
maximum(x, y) ==
    IF x.k = "nan" \/ y.k = "nan" THEN NaN ELSE IF FLe(x, y) THEN y ELSE x
minimum(x, y) ==
    IF x.k = "nan" \/ y.k = "nan" THEN NaN ELSE IF FLe(x, y) THEN x ELSE y

\* a faulty variant of clip: only the upper bound is applied
clip_upper_only(x, a_min, a_max) ==
    [i \in 1..Len(x) |-> minimum(x[i], Ssq(a_max))]

\* numpy.clip(x, a_min, a_max) = minimum(maximum(x, a_min), a_max), elementwise,
\* for a_min <= a_max; x is a sequence of signed squares, the bounds are floats
clip(x, a_min, a_max) ==
    [i \in 1..Len(x) |-> minimum(maximum(x[i], Ssq(a_min)), Ssq(a_max))]

\* ------------------------------------------------------------ exceptions
Err(type, msg, line) == [type |-> type, msg |-> msg, line |-> line]
NoErr == Err("", "", 0)
\* a failed assert statement of the given line
AssertionError(line) == Err("AssertionError", "", line)
ValueError(msg, line) == Err("ValueError", msg, line)

\* ------------------------------------------------- the pieces of dprime()
DEFAULT_DPRIME_MODE == "binary"

\* the assert statements of the 'binary' branch, in their order: the first
\* that fails raises, and the later ones are not evaluated
BinaryChecks(y_true, y_pred) ==
    IF len(y_true) # len(y_pred)
    THEN [err |-> AssertionError(105), steps |-> <<"len">>]
    ELSE IF ~isfinite_all(y_true)
    THEN [err |-> AssertionError(106), steps |-> <<"len", "labels_finite">>]
    ELSE IF y_true.ndim # 1
    THEN [err |-> AssertionError(109),
          steps |-> <<"len", "labels_finite", "ndim_true">>]
    ELSE IF y_pred.ndim # 1
    THEN [err |-> AssertionError(112),
          steps |-> <<"len", "labels_finite", "ndim_true", "ndim_pred">>]
    ELSE [err |-> NoErr,
          steps |-> <<"len", "labels_finite", "ndim_true", "ndim_pred">>]

\* i_pos = y_true > 0 and i_neg = ~i_pos, as boolean masks
i_pos(y_true) == [i \in 1..size(y_true) |-> FLt(Zero, y_true.data[i])]
\* a faulty variant of i_neg: y_true < 0, which loses the labels equal to 0
i_neg_negative(y_true) == [i \in 1..size(y_true) |-> FLt(y_true.data[i], Zero)]
i_neg(y_true) == [i \in 1..size(y_true) |-> ~i_pos(y_true)[i]]

\* y_pred[mask]: the elements of y_pred where the mask is true, in order
RECURSIVE compress(_, _)
compress(data, mask) ==
    IF data = <<>> \/ mask = <<>> THEN <<>>
    ELSE (IF Head(mask) THEN <<Head(data)>> ELSE <<>>)
         \o compress(Tail(data), Tail(mask))
take(y_pred, mask) == Arr(1, compress(y_pred.data, mask))

\* a faulty variant of SameShape: the sizes are compared, not the shapes
SameShape_size(TPR, FPR) == size(TPR) = size(FPR)
\* TPR.shape == FPR.shape
SameShape(TPR, FPR) == shape(TPR) = shape(FPR)

\* the two finiteness asserts of the sample family, pos first
FiniteErr(pos, neg) ==
    IF ~isfinite_all(pos) THEN AssertionError(137)
    ELSE IF ~isfinite_all(neg) THEN AssertionError(138)
    ELSE NoErr
FiniteSteps(pos, neg) ==
    IF ~isfinite_all(pos) THEN <<"pos_finite">> ELSE <<"pos_finite", "neg_finite">>

\* a faulty variant of TooFew: only an empty set is too small
TooFew_empty(x) == size(x) < 1
\* x.size <= 1
TooFew(x) == size(x) <= 1
\* the two size tests of the sample family, pos first
SizeErr(pos, neg) ==
    IF TooFew(pos)
    THEN ValueError("Not enough positive samplesto estimate the variance", 141)
    ELSE IF TooFew(neg)
    THEN ValueError("Not enough negative samplesto estimate the variance", 144)
    ELSE NoErr
SizeSteps(pos, neg) ==
    IF TooFew(pos) THEN <<"pos_size">> ELSE <<"pos_size", "neg_size">>

\* pos_mean, neg_mean, pos_var, neg_var
Stats(pos, neg) ==
    [pos_mean |-> mean(pos), neg_mean |-> mean(neg),
     pos_var |-> var(pos, 1), neg_var |-> var(neg, 1)]
NoStats == [pos_mean |-> NaN, neg_mean |-> NaN, pos_var |-> NaN, neg_var |-> NaN]

\* a faulty variant of Pooled: the parentheses are lost, pos_var + neg_var / 2.
Pooled_unparenthesised(pos_var, neg_var) == FAdd(pos_var, FDiv(neg_var, Int2F(2)))
\* (pos_var + neg_var) / 2.
Pooled(pos_var, neg_var) == FDiv(FAdd(pos_var, neg_var), Int2F(2))

\* num / div with num = pos_mean - neg_mean and div = sqrt(pooled variance),
\* as a signed square: ssq(a / b) = ssq(a) / ssq(b)
SampleDprime(st) ==
    LET num == FSub(st.pos_mean, st.neg_mean)
        div == sqrt(Pooled(st.pos_var, st.neg_var))
    IN  <<FDiv(Ssq(num), div)>>

\* a faulty variant of RateFormula: FPR is not transformed
RateFormula_raw_fpr(tpr, fpr) == FSub(norm_ppf(tpr), fpr)
\* one element of norm.ppf(TPR) - norm.ppf(FPR)
RateFormula(tpr, fpr) == FSub(norm_ppf(tpr), norm_ppf(fpr))
\* norm.ppf(TPR) - norm.ppf(FPR), elementwise over two arrays of one shape, as
\* signed squares
RateDprime(TPR, FPR) ==
    [i \in 1..Min2(size(TPR), size(FPR)) |->
        Ssq(RateFormula(TPR.data[i], FPR.data[i]))]

\* ------------------------------------------------------------ the inputs
Seqs(S, n) == UNION {[1..m -> S] : m \in 0..n}
Modes == {"binary", "sample", "rate", "confusionmat"}
\* (min_value, max_value): the defaults, a finite range, and a lower bound alone
BoundPairs ==
    {<<NInf, PInf>>, <<Int2F(-1), Int2F(1)>>, <<Zero, PInf>>}
SampleValues == {Int2F(0), Int2F(1), NaN, PInf}
LabelValues == {Int2F(-1), Int2F(0), Int2F(1)}
PredValues == {Int2F(0), Int2F(1)}
RateValues == {Zero, Fin(1, 4), Fin(1, 2), Int2F(1), NaN}
\* the values of the arrays of the shape cases: labels and predictions, rates
ShapeLabels == {Int2F(-1), Int2F(1), PInf}
ShapeRates == {Fin(1, 2), NaN}

\* unequal lengths and two-dimensional arrays
ShapeArrays(S) == {Arr(nd, a) : <<nd, a>> \in {1, 2} \X Seqs(S, MaxShape)}
\* mode tags dprime does not know
BadModes == {"bogus", "Binary", ""}

\* what confusion_matrix_stats(A, **kwargs) may return for one grouping: the
\* counts P, N, TP, FP (FN and TN are not used)
Counts == {<<0, 0>>, <<2, 0>>, <<2, 1>>, <<2, 2>>,
           <<4, 0>>, <<4, 1>>, <<4, 2>>, <<4, 3>>, <<4, 4>>}
confusion_matrix_stats ==
    {[P |-> p[1], TP |-> p[2], N |-> n[1], FP |-> n[2]] : <<p, n>> \in Counts \X Counts}

\* -------------------------------------------------------------- the state
VARIABLES
    mode, A, B, max_value, min_value,   \* the arguments of the call
    pc,                                 \* where the call is
    pos, neg,                           \* the two sample sets
    TPR, FPR,                           \* the two rate arrays
    stats,                              \* pos_mean, neg_mean, pos_var, neg_var
    dp,                                 \* the d' value(s), as signed squares
    formula,                            \* history: dp as the formula left it
    err,                                \* the exception raised, if any
    steps                               \* history: the checks and computations done

vars == <<mode, A, B, max_value, min_value, pc, pos, neg, TPR, FPR, stats, dp,
          formula, err, steps>>
args == <<mode, A, B, max_value, min_value>>

\* the call dprime(a, b, mode=m, ...) is about to run
Call(m, a, b) == mode = m /\ A = a /\ B = b

\* sample mode: two one-dimensional arrays of at most MaxSamples values together
SampleCall ==
    \E m \in 0..MaxSamples, n \in 0..MaxSamples :
        /\ m + n <= MaxSamples
        /\ \E a \in [1..m -> SampleValues], b \in [1..n -> SampleValues] :
                Call("sample", Arr(1, a), Arr(1, b))
\* binary mode (the default): labels and predictions of one length
BinaryCall ==
    \E m \in 0..MaxLabels :
        \E a \in [1..m -> LabelValues], b \in [1..m -> PredValues] :
            Call(DEFAULT_DPRIME_MODE, Arr(1, a), Arr(1, b))
\* rate mode: two rate arrays of one length
RateCall ==
    \E m \in 0..MaxRates :
        \E a \in [1..m -> RateValues], b \in [1..m -> RateValues] :
            Call("rate", Arr(1, a), Arr(1, b))
\* binary and rate mode on arrays of any two shapes
ShapeCall ==
    \/ \E a \in ShapeArrays(ShapeLabels), b \in ShapeArrays(ShapeLabels) :
            Call(DEFAULT_DPRIME_MODE, a, b)
    \/ \E a \in ShapeArrays(ShapeRates), b \in ShapeArrays(ShapeRates) :
            Call("rate", a, b)
\* a confusion matrix (B is ignored)
ConfusionmatCall == Call("confusionmat", Arr(2, <<Int2F(2), Int2F(2)>>), NoArr)
\* an unknown mode tag
BadModeCall ==
    \E m \in BadModes, a \in ShapeArrays({NaN}), b \in ShapeArrays({NaN}) :
        Call(m, a, b)

Init ==
    /\ \/ SampleCall \/ BinaryCall \/ RateCall \/ ShapeCall
       \/ ConfusionmatCall \/ BadModeCall
    /\ \E b \in BoundPairs : min_value = b[1] /\ max_value = b[2]
    /\ pc = "start"
    /\ pos = NoArr /\ neg = NoArr /\ TPR = NoArr /\ FPR = NoArr
    /\ stats = NoStats
    /\ dp = <<>> /\ formula = <<>>
    /\ err = NoErr
    /\ steps = <<>>

\* raise e: the call ends with the exception and nothing else changes
Raise(e) == err' = e /\ pc' = "raised"

\* lines 99-100: mode == 'sample'
ConvertSample ==
    /\ pc = "start" /\ mode = "sample"
    /\ pos' = A /\ neg' = B
    /\ pc' = "finite"
    /\ UNCHANGED <<args, TPR, FPR, stats, dp, formula, err, steps>>

\* lines 102-118: mode == 'binary'
ConvertBinary ==
    /\ pc = "start" /\ mode = "binary"
    /\ LET c == BinaryChecks(A, B)
       IN  IF c.err # NoErr
           THEN /\ Raise(c.err)
                /\ steps' = steps \o c.steps
                /\ UNCHANGED <<pos, neg>>
           ELSE /\ pos' = take(B, i_pos(A))
                /\ neg' = take(B, i_neg(A))
                /\ steps' = steps \o c.steps \o <<"partition">>
                /\ pc' = "finite"
                /\ UNCHANGED err
    /\ UNCHANGED <<args, TPR, FPR, stats, dp, formula>>

\* lines 120-122: mode == 'rate'
ConvertRate ==
    /\ pc = "start" /\ mode = "rate"
    /\ TPR' = A /\ FPR' = B
    /\ steps' = steps \o <<"shape">>
    /\ IF SameShape(A, B) THEN pc' = "rate" /\ UNCHANGED err
       ELSE Raise(AssertionError(122))
    /\ UNCHANGED <<args, pos, neg, stats, dp, formula>>

\* lines 124-130: mode == 'confusionmat'
ConvertConfusionmat ==
    /\ pc = "start" /\ mode = "confusionmat"
    /\ \E c \in confusion_matrix_stats :
        /\ TPR' = Arr(1, <<FDiv(Int2F(c.TP), Int2F(c.P))>>)
        /\ FPR' = Arr(1, <<FDiv(Int2F(c.FP), Int2F(c.N))>>)
    /\ steps' = steps \o <<"confusion_matrix_stats", "rates">>
    /\ pc' = "rate"
    /\ UNCHANGED <<args, pos, neg, stats, dp, formula, err>>

\* a faulty variant of RaiseInvalidMode: an unknown mode is taken for 'rate'
RaiseInvalidMode_as_rate ==
    /\ pc = "start" /\ mode \notin Modes
    /\ TPR' = A /\ FPR' = B
    /\ pc' = "rate"
    /\ UNCHANGED <<args, pos, neg, stats, dp, formula, err, steps>>

\* lines 132-133: any other mode
RaiseInvalidMode ==
    /\ pc = "start" /\ mode \notin Modes
    /\ Raise(ValueError("Invalid mode", 133))
    /\ UNCHANGED <<args, pos, neg, TPR, FPR, stats, dp, formula, steps>>

\* a faulty variant of CheckFinite: the two finiteness asserts are left out
CheckFinite_skipped ==
    /\ pc = "finite"
    /\ pc' = "size"
    /\ UNCHANGED <<args, pos, neg, TPR, FPR, stats, dp, formula, err, steps>>

\* lines 136-138
CheckFinite ==
    /\ pc = "finite"
    /\ steps' = steps \o FiniteSteps(pos, neg)
    /\ IF FiniteErr(pos, neg) # NoErr THEN Raise(FiniteErr(pos, neg))
       ELSE pc' = "size" /\ UNCHANGED err
    /\ UNCHANGED <<args, pos, neg, TPR, FPR, stats, dp, formula>>

\* lines 140-145
CheckSize ==
    /\ pc = "size"
    /\ steps' = steps \o SizeSteps(pos, neg)
    /\ IF SizeErr(pos, neg) # NoErr THEN Raise(SizeErr(pos, neg))
       ELSE pc' = "stats" /\ UNCHANGED err
    /\ UNCHANGED <<args, pos, neg, TPR, FPR, stats, dp, formula>>

\* lines 147-155
ComputeSample ==
    /\ pc = "stats"
    /\ stats' = Stats(pos, neg)
    /\ dp' = SampleDprime(Stats(pos, neg))
    /\ formula' = dp'
    /\ steps' = steps \o <<"stats", "formula">>
    /\ pc' = "clip"
    /\ UNCHANGED <<args, pos, neg, TPR, FPR, err>>

\* lines 157-158
ComputeRate ==
    /\ pc = "rate"
    /\ dp' = RateDprime(TPR, FPR)
    /\ formula' = dp'
    /\ steps' = steps \o <<"ppf", "formula">>
    /\ pc' = "clip"
    /\ UNCHANGED <<args, pos, neg, TPR, FPR, stats, err>>

\* lines 160-163
ClipReturn ==
    /\ pc = "clip"
    /\ dp' = clip(dp, min_value, max_value)
    /\ steps' = steps \o <<"clip">>
    /\ pc' = "done"
    /\ UNCHANGED <<args, pos, neg, TPR, FPR, stats, formula, err>>

Next ==
    \/ ConvertSample \/ ConvertBinary \/ ConvertRate \/ ConvertConfusionmat
    \/ RaiseInvalidMode
    \/ CheckFinite \/ CheckSize \/ ComputeSample \/ ComputeRate \/ ClipReturn

Spec == Init /\ [][Next]_vars

\* ------------------------------------------------ the call as a function
Returned(v) == [kind |-> "return", value |-> v, err |-> NoErr]
Raised(e) == [kind |-> "raise", value |-> <<>>, err |-> e]

\* the sample family from pos and neg on (lines 136-163)
SampleFamily(p, n, hi, lo) ==
    IF FiniteErr(p, n) # NoErr THEN Raised(FiniteErr(p, n))
    ELSE IF SizeErr(p, n) # NoErr THEN Raised(SizeErr(p, n))
    ELSE Returned(clip(SampleDprime(Stats(p, n)), lo, hi))

\* dprime(a, b, mode=m, max_value=hi, min_value=lo) for the three modes that
\* call no collaborator
dprime(a, b, m, hi, lo) ==
    CASE m = "sample" -> SampleFamily(a, b, hi, lo)
      [] m = "binary" ->
            IF BinaryChecks(a, b).err # NoErr THEN Raised(BinaryChecks(a, b).err)
            ELSE SampleFamily(take(b, i_pos(a)), take(b, i_neg(a)), hi, lo)
      [] m = "rate" ->
            IF ~SameShape(a, b) THEN Raised(AssertionError(122))
            ELSE Returned(clip(RateDprime(a, b), lo, hi))
      [] OTHER -> Raised(ValueError("Invalid mode", 133))

\* the outcome of the call the state holds, once it has ended
Outcome == IF pc = "done" THEN Returned(dp) ELSE Raised(err)
Ended == pc \in {"done", "raised"}

\* ------------------------------------------------------------ the claims
\* vocabulary of the claims, stated without the operators of the model
NonFinite(x) == x.k \in {"nan", "pinf", "ninf"}
HasNonFinite(a) == \E i \in 1..Len(a.data) : NonFinite(a.data[i])
DefaultBounds == min_value = NInf /\ max_value = PInf
SampleFamilyMode == mode \in {"sample", "binary"}
\* the call got past the basic checks of a sample-family mode, so that pos
\* and neg are the two sample sets
HasSampleSets ==
    /\ SampleFamilyMode
    /\ \/ pc \in {"finite", "size", "stats", "clip", "done"}
       \/ pc = "raised" /\ err.line >= 136
\* x lies within [lo, hi], all three signed squares
Within(x, lo, hi) == FLe(lo, x) /\ FLe(x, hi)

\* C1 as stated: every element of a returned value lies within
\* [min_value, max_value], and with the default bounds the returned value is
\* the unclipped formula value (which may then be NaN: the range is only
\* asked of a call that sets a bound).
C1_ClippingLaw ==
    pc = "done" =>
        /\ ~DefaultBounds =>
                \A i \in 1..Len(dp) : Within(dp[i], Ssq(min_value), Ssq(max_value))
        /\ DefaultBounds => dp = formula

\* C1 as amended: with min_value <= max_value, a returned element that is
\* not NaN lies within [min_value, max_value], and is the formula value when
\* that lies within the range; a NaN element of the formula value is
\* returned as NaN whatever the bounds; with the default bounds the returned
\* value is the unclipped formula value, NaN and infinities included.
C1_ClippingLawAmended ==
    pc = "done" =>
        /\ Len(dp) = Len(formula)
        /\ \A i \in 1..Len(dp) :
            /\ formula[i] = NaN => dp[i] = NaN
            /\ formula[i] # NaN /\ FLe(min_value, max_value) =>
                    Within(dp[i], Ssq(min_value), Ssq(max_value))
            /\ Within(formula[i], Ssq(min_value), Ssq(max_value)) =>
                    dp[i] = formula[i]
        /\ DefaultBounds => dp = formula
\* a value of +inf is clipped to max_value = 1
C1_Witness ==
    /\ pc = "done" /\ max_value = Int2F(1) /\ min_value = Int2F(-1)
    /\ formula = <<PInf>> /\ dp = <<Int2F(1)>>

\* C2 as stated: in binary, sample and rate mode a non-finite label, sample
\* value or rate makes the call fail.
C2_NonFiniteRejected ==
    (Ended /\ mode \in {"binary", "sample", "rate"}
        /\ (HasNonFinite(A) \/ HasNonFinite(B)))
    => pc = "raised"

\* C2 as amended: in binary and sample mode a non-finite label or sample
\* value makes the call fail with an assertion error before any statistic
\* is computed, and no value is returned (rate mode is not covered).
C2_NonFiniteRejectedInSampleFamily ==
    (SampleFamilyMode /\ (HasNonFinite(A) \/ HasNonFinite(B)))
    => /\ pc \in {"start", "finite", "raised"}
       /\ pc = "raised" => err.type = "AssertionError"
       /\ stats = NoStats /\ dp = <<>>
\* sample mode, an infinite negative sample, the call has failed
C2_Witness ==
    /\ pc = "raised" /\ mode = "sample"
    /\ ~HasNonFinite(A) /\ \E i \in 1..Len(B.data) : B.data[i] = PInf

NotEnoughPositive == err.type = "ValueError" /\ err.line = 141
NotEnoughNegative == err.type = "ValueError" /\ err.line = 144

\* C4 as stated: in the sample family, a sample set of at most 1 element
\* makes the call fail with the not-enough-samples error, the one about the
\* positive set when that set is too small; two finite sets of more than 1
\* element do not raise it.
C4_InsufficientSamples ==
    (Ended /\ HasSampleSets) =>
        /\ size(pos) <= 1 => pc = "raised" /\ NotEnoughPositive
        /\ size(pos) > 1 /\ size(neg) <= 1 => pc = "raised" /\ NotEnoughNegative
        /\ (size(pos) > 1 /\ size(neg) > 1 /\ ~HasNonFinite(pos) /\ ~HasNonFinite(neg))
                => pc = "done"

\* C4 as amended: the same, provided every value of both sample sets is
\* finite (a non-finite value fails the finiteness assertion first).
C4_InsufficientFiniteSamples ==
    (Ended /\ HasSampleSets /\ ~HasNonFinite(pos) /\ ~HasNonFinite(neg)) =>
        /\ size(pos) <= 1 => pc = "raised" /\ NotEnoughPositive
        /\ size(pos) > 1 /\ size(neg) <= 1 => pc = "raised" /\ NotEnoughNegative
        /\ size(pos) > 1 /\ size(neg) > 1 => pc = "done"
\* binary mode, both partitions too small: the positive set is reported
C4_Witness ==
    /\ pc = "raised" /\ mode = "binary" /\ NotEnoughPositive
    /\ size(pos) = 1 /\ size(neg) = 1

\* the shapes of A and B disagree with what the mode requires
BinaryMismatch == len(A) # len(B) \/ A.ndim # 1 \/ B.ndim # 1
RateMismatch == A.ndim # B.ndim \/ Len(A.data) # Len(B.data)

\* C5 as stated: in binary mode unequal lengths or an argument that is not
\* one-dimensional, and in rate mode two arrays of different shape, make the
\* call fail with a shape error (one of the shape asserts); when the shapes
\* agree no shape assert fails.
C5_ShapeMismatch ==
    Ended =>
        /\ mode = "binary" /\ BinaryMismatch =>
                pc = "raised" /\ err.type = "AssertionError"
                /\ err.line \in {105, 109, 112}
        /\ mode = "rate" /\ RateMismatch =>
                pc = "raised" /\ err = [type |-> "AssertionError", msg |-> "",
                                        line |-> 122]
        /\ (mode = "binary" /\ ~BinaryMismatch) \/ (mode = "rate" /\ ~RateMismatch)
                => err.line \notin {105, 109, 112, 122}

\* C5 as amended: the same, except that in binary mode with equal lengths a
\* non-finite label fails the label-finiteness assert (line 106), which is
\* evaluated before the two dimension asserts; in every case of a mismatch
\* the call fails with an assertion error and returns no value.
C5_ShapeMismatchAmended ==
    Ended =>
        /\ mode = "binary" /\ BinaryMismatch =>
                /\ pc = "raised" /\ err.type = "AssertionError" /\ dp = <<>>
                /\ len(A) # len(B) => err.line = 105
                /\ len(A) = len(B) /\ HasNonFinite(A) => err.line = 106
                /\ len(A) = len(B) /\ ~HasNonFinite(A) /\ A.ndim # 1 => err.line = 109
                /\ len(A) = len(B) /\ ~HasNonFinite(A) /\ A.ndim = 1 => err.line = 112
        /\ mode = "rate" /\ RateMismatch =>
                /\ pc = "raised" /\ dp = <<>>
                /\ err = [type |-> "AssertionError", msg |-> "", line |-> 122]
        /\ (mode = "binary" /\ ~BinaryMismatch) \/ (mode = "rate" /\ ~RateMismatch)
                => err.line \notin {105, 109, 112, 122}
\* rate mode, two arrays of the same size and different shape, the call has
\* failed
C5_Witness ==
    /\ pc = "raised" /\ mode = "rate"
    /\ Len(A.data) = Len(B.data) /\ A.ndim = 1 /\ B.ndim = 2

\* the elements of data at the indices where keep holds, in order
RECURSIVE Pick(_, _, _)
Pick(data, keep, i) ==
    IF i > Len(data) THEN <<>>
    ELSE (IF keep[i] THEN <<data[i]>> ELSE <<>>) \o Pick(data, keep, i + 1)
\* the predictions whose label is > 0, and those whose label is <= 0
PositivesOf(a, b) == Arr(1, Pick(b.data, [i \in 1..Len(a.data) |-> a.data[i].n > 0], 1))
NegativesOf(a, b) == Arr(1, Pick(b.data, [i \in 1..Len(a.data) |-> a.data[i].n <= 0], 1))

\* C6: for one-dimensional A (finite labels) and B of one length, the call in
\* binary mode ends as the call in sample mode on the predictions with a
\* label > 0 and the predictions with a label <= 0 does (the same value or
\* the same error), and the two sets together have as many elements as B.
C6_ModeEquivalence ==
    (Ended /\ mode = "binary" /\ A.ndim = 1 /\ B.ndim = 1
        /\ Len(A.data) = Len(B.data) /\ ~HasNonFinite(A))
    => /\ Outcome = dprime(PositivesOf(A, B), NegativesOf(A, B), "sample",
                           max_value, min_value)
       /\ size(pos) + size(neg) = Len(B.data)
       /\ pos = PositivesOf(A, B) /\ neg = NegativesOf(A, B)
\* binary mode with labels 0, negative and positive, a finite nonzero d'
C6_Witness ==
    /\ pc = "done" /\ mode = "binary"
    /\ \E i, j, k \in 1..Len(A.data) :
            A.data[i].n = 0 /\ A.data[j].n < 0 /\ A.data[k].n > 0
    /\ dp[1].k = "fin" /\ dp[1].n # 0

\* C7: in sample mode with the default bounds, two finite sample sets of more
\* than one element each give the negated d' when they are swapped.
C7_Antisymmetry ==
    (pc = "done" /\ mode = "sample" /\ DefaultBounds) =>
        LET swapped == dprime(B, A, "sample", PInf, NInf)
        IN  /\ swapped.kind = "return"
            /\ Len(swapped.value) = Len(dp)
            /\ \A i \in 1..Len(dp) : dp[i] = FNeg(swapped.value[i])
\* two sets of different sizes with a finite positive d'
C7_Witness ==
    /\ pc = "done" /\ mode = "sample" /\ DefaultBounds
    /\ size(pos) # size(neg)
    /\ dp[1].k = "fin" /\ dp[1].n > 0

\* sums over integer samples
RECURSIVE IntSum(_)
IntSum(s) == IF s = <<>> THEN 0 ELSE Head(s).n + IntSum(Tail(s))
RECURSIVE SquareSum(_)
SquareSum(s) == IF s = <<>> THEN 0 ELSE Head(s).n * Head(s).n + SquareSum(Tail(s))

\* C8: in sample mode with the default bounds, for finite sets of more than
\* one element, d' = (mean(pos) - mean(neg)) / sqrt((var(pos) + var(neg)) / 2)
\* with var the sum of squared deviations over n - 1 and the two variances
\* pooled unweighted.  With n, m the sizes, S the sums and Q the sums of
\* squares, the mean difference is D = (m*Sp - n*Sn) / (n*m), the variances
\* are (n*Qp - Sp^2) / (n*(n-1)) and (m*Qn - Sn^2) / (m*(m-1)), and the
\* equation is stated on the signed square, cross-multiplied: d'^2 * H = D^2
\* with the sign of D, H being half the sum of the two variances; H = 0 gives
\* an infinity of the sign of D, or NaN when D = 0.
C8_SampleFormula ==
    (pc = "done" /\ mode = "sample" /\ DefaultBounds) =>
        LET n == Len(A.data)
            m == Len(B.data)
            Dn == m * IntSum(A.data) - n * IntSum(B.data)
            Dd == n * m
            Vp == n * SquareSum(A.data) - IntSum(A.data) * IntSum(A.data)
            Vn == m * SquareSum(B.data) - IntSum(B.data) * IntSum(B.data)
            Hn == Vp * m * (m - 1) + Vn * n * (n - 1)
            Hd == 2 * n * (n - 1) * m * (m - 1)
            sD == IF Dn > 0 THEN 1 ELSE IF Dn < 0 THEN -1 ELSE 0
        IN  /\ n > 1 /\ m > 1 /\ Len(dp) = 1
            /\ Hn = 0 /\ Dn = 0 => dp[1] = NaN
            /\ Hn = 0 /\ Dn > 0 => dp[1] = PInf
            /\ Hn = 0 /\ Dn < 0 => dp[1] = NInf
            /\ Hn # 0 => /\ dp[1].k = "fin"
                         /\ dp[1].n * Hn * Dd * Dd = sD * Dn * Dn * Hd * dp[1].d
\* two sets of different sizes and different positive variances
C8_Witness ==
    /\ pc = "done" /\ mode = "sample" /\ DefaultBounds
    /\ size(pos) = 2 /\ size(neg) = 3
    /\ stats.pos_var.n > 0 /\ stats.neg_var.n > 0
    /\ dp[1].k = "fin" /\ dp[1].n # 0

\* a rate strictly between 0 and 1
Interior(r) == r.k = "fin" /\ 0 < r.n /\ r.n < r.d

\* C9 as stated: in rate mode with the default bounds, equal rates r in
\* [0, 1] give d' = 0.
C9_RateIdentity ==
    (pc = "done" /\ mode = "rate" /\ DefaultBounds) =>
        \A i \in 1..Len(dp) :
            (A.data[i] = B.data[i] /\ A.data[i].k = "fin"
                /\ 0 <= A.data[i].n /\ A.data[i].n <= A.data[i].d)
            => dp[i] = Zero

\* C9 as amended: equal rates strictly between 0 and 1 give d' = 0; equal
\* rates of 0 or of 1 give NaN (the difference of two equal infinities).  The
\* transform of 0 is -inf and of 1 is +inf: against a rate strictly between 0
\* and 1, TPR = 1 or FPR = 0 gives +inf and TPR = 0 or FPR = 1 gives -inf.
C9_RateIdentityAmended ==
    (pc = "done" /\ mode = "rate" /\ DefaultBounds) =>
        \A i \in 1..Len(dp) :
            LET t == A.data[i]
                f == B.data[i]
            IN  /\ t = f /\ Interior(t) => dp[i] = Zero
                /\ t = f /\ t \in {Zero, Int2F(1)} => dp[i] = NaN
                /\ t = Int2F(1) /\ (Interior(f) \/ f = Zero) => dp[i] = PInf
                /\ f = Zero /\ Interior(t) => dp[i] = PInf
                /\ t = Zero /\ (Interior(f) \/ f = Int2F(1)) => dp[i] = NInf
                /\ f = Int2F(1) /\ Interior(t) => dp[i] = NInf
\* dprime([1/4], [1/4], mode='rate') has returned 0
C9_Witness ==
    /\ pc = "done" /\ mode = "rate" /\ DefaultBounds
    /\ A.data = <<Fin(1, 4)>> /\ B.data = <<Fin(1, 4)>> /\ A.ndim = 1 /\ B.ndim = 1
    /\ dp = <<Zero>>

\* the precondition checks, in the order the code evaluates them, and the
\* computations
CheckOrder ==
    <<"len", "labels_finite", "ndim_true", "ndim_pred", "shape",
      "pos_finite", "neg_finite", "pos_size", "neg_size">>
Computations == {"stats", "ppf", "formula", "clip"}
ChecksOfMode ==
    CASE mode = "binary" -> <<"len", "labels_finite", "ndim_true", "ndim_pred",
                              "pos_finite", "neg_finite", "pos_size", "neg_size">>
      [] mode = "sample" -> <<"pos_finite", "neg_finite", "pos_size", "neg_size">>
      [] mode = "rate" -> <<"shape">>
      [] OTHER -> <<>>
IsCheck(e) == \E i \in 1..Len(CheckOrder) : CheckOrder[i] = e
ChecksDone == SelectSeq(steps, IsCheck)
\* a precondition of the mode does not hold
ViolatesPrecondition ==
    \/ mode \notin {"binary", "sample", "rate", "confusionmat"}
    \/ mode = "binary" /\ (BinaryMismatch \/ HasNonFinite(A) \/ HasNonFinite(B))
    \/ mode = "rate" /\ RateMismatch
    \/ HasSampleSets /\ (HasNonFinite(pos) \/ HasNonFinite(neg)
                          \/ size(pos) <= 1 \/ size(neg) <= 1)

\* C10: every precondition check of the mode is evaluated before any
\* statistic, quantile transform or clip, in the order mode and shape checks,
\* finiteness of pos and neg, sample count; a call that violates a
\* precondition ends in an error with no statistic computed and no value;
\* a sample set that is non-finite and too small fails the finiteness
\* assertion, not the size test.
C10_FailFast ==
    /\ \A i, j \in 1..Len(steps) :
            steps[i] \in Computations /\ i < j => ~IsCheck(steps[j])
    /\ ChecksDone = SubSeq(ChecksOfMode, 1, Len(ChecksDone))
    /\ (\E i \in 1..Len(steps) : steps[i] \in Computations)
            => ChecksDone = ChecksOfMode /\ err = NoErr
    /\ pc = "raised" =>
            /\ stats = NoStats /\ dp = <<>> /\ formula = <<>>
            /\ \A i \in 1..Len(steps) : steps[i] \notin Computations
    /\ Ended /\ ViolatesPrecondition => pc = "raised"
    /\ (Ended /\ HasSampleSets
            /\ \/ HasNonFinite(pos) /\ size(pos) <= 1
               \/ HasNonFinite(neg) /\ size(neg) <= 1)
       => err.type = "AssertionError" /\ err.line \in {137, 138}
\* sample mode: the negative set is non-finite and too small, the positive
\* set is large enough, and the call failed on the finiteness assertion
C10_Witness ==
    /\ pc = "raised" /\ mode = "sample"
    /\ size(pos) > 1 /\ size(neg) = 1 /\ HasNonFinite(neg)
    /\ err.line = 138
    /\ steps = <<"pos_finite", "neg_finite">>
====
